---- MODULE Spec2Model ----
(***************************************************************************)
(* Model of the two MCP servers of mcp-server-demo:                        *)
(*   main.py       (CalendarioPrenotazioni: clients and appointments)      *)
(*   main_oldd.py  (TaskManager: personal tasks)                           *)
(* Both work on one SQLite file through short-lived connections.  The      *)
(* database is the state; every tool is one action.  Times of day are the  *)
(* text values "HH:MM" the code stores, written here as the sequence of    *)
(* their four digits, and compared as SQLite compares TEXT.                *)
(***************************************************************************)
EXTENDS Integers, Sequences, FiniteSets, TLC

VARIABLES schema, clienti, appuntamenti, storico, last, prev, conc

vars == <<schema, clienti, appuntamenti, storico, last, prev, conc>>

(***************************************************************************)
(* Bounds of the model.                                                    *)
(***************************************************************************)
MaxRighe == 2        \* rows of appuntamenti that the tools may create
MaxStorico == 3      \* rows of storico_modifiche (committed mutations)
MaxClienti == 2      \* rows of clienti

(***************************************************************************)
(* Time of day: datetime.strptime(s, '%H:%M'), + timedelta(minutes=..),    *)
(* .strftime('%H:%M').                                                     *)
(***************************************************************************)
MinutiGiorno == 1440

\* strptime accepts the text only when hour <= 23 and minute <= 59
OraValida(t) ==
    /\ Len(t) = 4
    /\ t[1] * 10 + t[2] <= 23
    /\ t[3] * 10 + t[4] <= 59

\* minutes since 1900-01-01 00:00 of the parsed datetime
strptime(t) == (t[1] * 10 + t[2]) * 60 + t[3] * 10 + t[4]

\* '%H:%M' drops the date part: only the time of day is formatted
strftime(m) ==
    LET w == m % MinutiGiorno
        h == w \div 60
        mi == w % 60
    IN <<h \div 10, h % 10, mi \div 10, mi % 10>>

\* an end time that forgets the duration
OraFineSenzaDurata(ora_inizio, durata_minuti) == strftime(strptime(ora_inizio))

\* ora_fine of create_appointment
CalcolaOraFine(ora_inizio, durata_minuti) ==
    strftime(strptime(ora_inizio) + durata_minuti)

\* SQLite comparison of two TEXT values (bytewise, shorter prefix first)
RECURSIVE TextLess(_, _)
TextLess(a, b) ==
    IF b = <<>> THEN FALSE
    ELSE IF a = <<>> THEN TRUE
    ELSE IF a[1] # b[1] THEN a[1] < b[1]
    ELSE TextLess(Tail(a), Tail(b))

TextLeq(a, b) == a = b \/ TextLess(a, b)

(***************************************************************************)
(* Optional parameters: {} is None, {v} is the value v.                    *)
(***************************************************************************)
None == {}
Some(v) == {v}
Val(o) == CHOOSE v \in o : TRUE

\* an "is not None" test in the place of the truth value
NonNone(o) == o # None

\* Python truthiness of an optional parameter: a str written as a TLA+ string,
\* a str written as a digit sequence (dates, times), an int
TruthyStr(o) == o # None /\ o # {""}
TruthyTesto(o) == o # None /\ o # {<<>>}
TruthyInt(o) == o # None /\ o # {0}

(***************************************************************************)
(* The conflict query of create_appointment.                               *)
(***************************************************************************)
StatiInattivi == {"cancellato", "non_presentato"}

\* the first clause written with <= and >=
Clausola1NonStretta(r, ora_inizio, ora_fine) ==
    TextLeq(r.ora_inizio, ora_fine) /\ TextLeq(ora_inizio, r.ora_fine)

\* (ora_inizio < ? AND ora_fine > ?) bound to (ora_fine, ora_inizio)
Clausola1(r, ora_inizio, ora_fine) ==
    TextLess(r.ora_inizio, ora_fine) /\ TextLess(ora_inizio, r.ora_fine)

\* the second clause bound to (ora_inizio, ora_fine)
Clausola2AltriParametri(r, ora_inizio, ora_fine) ==
    TextLess(r.ora_inizio, ora_inizio) /\ TextLess(ora_fine, r.ora_fine)

\* (ora_inizio < ? AND ora_fine > ?) bound to (ora_fine, ora_inizio) again
Clausola2(r, ora_inizio, ora_fine) ==
    TextLess(r.ora_inizio, ora_fine) /\ TextLess(ora_inizio, r.ora_fine)

\* the third clause testing "the new interval lies within the stored one"
Clausola3Rovesciata(r, ora_inizio, ora_fine) ==
    TextLeq(r.ora_inizio, ora_inizio) /\ TextLeq(ora_fine, r.ora_fine)

\* (ora_inizio >= ? AND ora_fine <= ?) bound to (ora_inizio, ora_fine)
Clausola3(r, ora_inizio, ora_fine) ==
    TextLeq(ora_inizio, r.ora_inizio) /\ TextLeq(r.ora_fine, ora_fine)

\* a query that kept only its third clause
ClausoleSoloTerza(r, ora_inizio, ora_fine) == Clausola3(r, ora_inizio, ora_fine)

ClausoleOrario(r, ora_inizio, ora_fine) ==
    \/ Clausola1(r, ora_inizio, ora_fine)
    \/ Clausola2(r, ora_inizio, ora_fine)
    \/ Clausola3(r, ora_inizio, ora_fine)

\* a filter that forgets the stato of the row
FiltroSoloData(r, data) == r.data_appuntamento = data

FiltroRiga(r, data) ==
    r.data_appuntamento = data /\ r.stato \notin StatiInattivi

QueryConflitti(righe, data, ora_inizio, ora_fine) ==
    {r \in righe : FiltroRiga(r, data) /\ ClausoleOrario(r, ora_inizio, ora_fine)}

(***************************************************************************)
(* Database and results.                                                   *)
(***************************************************************************)
DB == [schema |-> schema, clienti |-> clienti,
       appuntamenti |-> appuntamenti, storico |-> storico]

\* cursor.lastrowid of an INSERT into a table whose rows are never removed
NextId(righe) == Cardinality(righe) + 1

\* a check that takes every id for a client
IdQualsiasi(cl) == 1 .. 3

IdClienti(cl) == {c.id_cliente : c \in cl}

Ids(righe) == {r.id_appuntamento : r \in righe}

Riga(righe, id) == CHOOSE r \in righe : r.id_appuntamento = id

\* a handler that writes no history row
NonRegistra(storia, id, tipo_modifica) == storia

\* INSERT INTO storico_modifiche (id_appuntamento, tipo_modifica, descrizione_modifica)
Registra(storia, id, tipo_modifica) == Append(storia, <<id, tipo_modifica>>)

\* what a tool body ends with: a returned dict, or an exception
Ritorna(ok, err, righe, modifiche) ==
    [exc |-> "", success |-> ok, error |-> err, righe |-> righe, modifiche |-> modifiche]

Successo(righe, modifiche) == Ritorna(TRUE, "", righe, modifiche)
Errore(err) == Ritorna(FALSE, err, {}, <<>>)
Solleva(e) == [exc |-> e, success |-> FALSE, error |-> "", righe |-> {}, modifiche |-> <<>>]

\* the result of running a body: the committed database and the outcome
Esito(db, out) == [db |-> db, out |-> out]

\* a handler that catches sqlite3.Error only
TryExceptSoloSqlite(e) ==
    IF e.out.exc \in {"OperationalError", "IntegrityError"}
    THEN Esito(e.db, Errore(e.out.exc)) ELSE e

\* except Exception as e: return {"success": False, "error": str(e)}
TryExcept(e) ==
    IF e.out.exc # "" THEN Esito(e.db, Errore(e.out.exc)) ELSE e

(***************************************************************************)
(* main.py: create_appointment                                             *)
(***************************************************************************)
DurataDefault == 30

create_appointment(db, a) ==
    IF db.schema # "prenotazioni" THEN Esito(db, Solleva("OperationalError"))
    ELSE IF a.id_cliente \notin IdClienti(db.clienti)
      THEN Esito(db, Errore("Cliente non trovato"))
    ELSE IF ~OraValida(a.ora_inizio) THEN Esito(db, Solleva("ValueError"))
    ELSE
      LET durata == IF a.durata_minuti = None THEN DurataDefault ELSE Val(a.durata_minuti)
          ora_fine == CalcolaOraFine(a.ora_inizio, durata)
          conflitti == QueryConflitti(db.appuntamenti, a.data_appuntamento,
                                      a.ora_inizio, ora_fine)
          riga == [id_appuntamento |-> NextId(db.appuntamenti),
                   id_cliente |-> a.id_cliente,
                   data_appuntamento |-> a.data_appuntamento,
                   ora_inizio |-> a.ora_inizio,
                   ora_fine |-> ora_fine,
                   titolo |-> a.titolo,
                   stato |-> "confermato",
                   note |-> None]
      IN IF conflitti # {} THEN Esito(db, Errore("Conflitto"))
         ELSE Esito([db EXCEPT !.appuntamenti = @ \cup {riga},
                                !.storico = Registra(@, riga.id_appuntamento, "creazione")],
                    Successo({riga}, <<>>))

(***************************************************************************)
(* main.py: update_appointment.  descrizione and urgente only add their    *)
(* own column to the UPDATE and are left out.                              *)
(***************************************************************************)
\* a join that finds no client
JoinVuoto(db) == {}

\* FROM appuntamenti a JOIN clienti c ON a.id_cliente = c.id_cliente
JoinClienti(db) == {r \in db.appuntamenti : r.id_cliente \in IdClienti(db.clienti)}

\* a handler that falls back to the default duration
DurataPredefinita(app) == DurataDefault

\* Mantieni la stessa durata: (vecchia_fine - vecchio_inizio) in minutes
DurataMantenuta(app) == strptime(app.ora_fine) - strptime(app.ora_inizio)

RECURSIVE Concat(_)
Concat(ss) == IF ss = <<>> THEN <<>> ELSE Head(ss) \o Concat(Tail(ss))

update_appointment(db, a) ==
    IF db.schema # "prenotazioni" THEN Esito(db, Solleva("OperationalError"))
    ELSE IF a.id_appuntamento \notin Ids(db.appuntamenti)
      THEN Esito(db, Errore("Appuntamento non trovato"))
    ELSE
      LET app_esistente == Riga(db.appuntamenti, a.id_appuntamento)
          conData == TruthyTesto(a.data_appuntamento)
          conOra == TruthyTesto(a.ora_inizio)
          conTitolo == TruthyStr(a.titolo)
          conStato == TruthyStr(a.stato)
          conNote == a.note # None
          \* if durata_minuti: ... else: keep (ora_fine - ora_inizio) of the row
          durata == IF TruthyInt(a.durata_minuti) THEN Val(a.durata_minuti)
                    ELSE DurataMantenuta(app_esistente)
          ora_fine == strftime(strptime(Val(a.ora_inizio)) + durata)
          modifiche == Concat(<<IF conData THEN <<"Data">> ELSE <<>>,
                                IF conOra THEN <<"Orario">> ELSE <<>>,
                                IF conTitolo THEN <<"Titolo">> ELSE <<>>,
                                IF conStato THEN <<"Stato">> ELSE <<>> >>)
          nuova == [app_esistente EXCEPT
                      !.data_appuntamento = IF conData THEN Val(a.data_appuntamento) ELSE @,
                      !.ora_inizio = IF conOra THEN Val(a.ora_inizio) ELSE @,
                      !.ora_fine = IF conOra THEN ora_fine ELSE @,
                      !.titolo = IF conTitolo THEN Val(a.titolo) ELSE @,
                      !.stato = IF conStato THEN Val(a.stato) ELSE @,
                      !.note = IF conNote THEN a.note ELSE @]
          db2 == [db EXCEPT !.appuntamenti = (@ \ {app_esistente}) \cup {nuova},
                            !.storico = Registra(@, a.id_appuntamento, "modifica")]
      IN IF conOra /\ ~OraValida(Val(a.ora_inizio)) THEN Esito(db, Solleva("ValueError"))
         ELSE IF ~(conData \/ conOra \/ conTitolo \/ conStato \/ conNote)
           THEN Esito(db, Errore("Nessuna modifica specificata"))
         \* after the commit: SELECT ... JOIN clienti, dict(cursor.fetchone())
         ELSE IF nuova \notin JoinClienti(db2) THEN Esito(db2, Solleva("TypeError"))
         ELSE Esito(db2, Successo({nuova}, modifiche))

(***************************************************************************)
(* main.py: delete_appointment                                             *)
(***************************************************************************)
\* a delete that removes the row
EliminaRiga(righe, app) == righe \ {app}

\* UPDATE appuntamenti SET stato = 'cancellato' WHERE id_appuntamento = ?
SegnaCancellato(righe, app) ==
    (righe \ {app}) \cup {[app EXCEPT !.stato = "cancellato"]}

delete_appointment(db, a) ==
    IF db.schema # "prenotazioni" THEN Esito(db, Solleva("OperationalError"))
    ELSE
      LET trovati == {r \in db.appuntamenti :
                        r.id_appuntamento = a.id_appuntamento
                        /\ r.id_cliente \in IdClienti(db.clienti)}
      IN IF trovati = {} THEN Esito(db, Errore("Appuntamento non trovato"))
         ELSE LET app == CHOOSE r \in trovati : TRUE
              IN Esito([db EXCEPT !.appuntamenti = SegnaCancellato(@, app),
                                  !.storico = Registra(@, a.id_appuntamento, "cancellazione")],
                       Successo({app}, <<>>))

(***************************************************************************)
(* main.py: create_client.  Of a client row the model keeps the id and the *)
(* email, the one column the handler expects an IntegrityError for.        *)
(***************************************************************************)
create_client(db, a) ==
    IF db.schema # "prenotazioni" THEN Esito(db, Solleva("OperationalError"))
    ELSE IF a.email # None /\ \E c \in db.clienti : c.email = a.email
      THEN Esito(db, Errore("Email gia esistente"))
    ELSE LET cliente == [id_cliente |-> Cardinality(db.clienti) + 1, email |-> a.email]
         IN Esito([db EXCEPT !.clienti = @ \cup {cliente}], Successo({cliente}, <<>>))

(***************************************************************************)
(* main.py: the read-only tools                                            *)
(***************************************************************************)
\* column LIKE '%query%' on a column that holds one word (NULL never matches)
Like(colonna, query) == colonna # None /\ (query = "" \/ Val(colonna) = query)

search_appointments(db, a) ==
    IF db.schema # "prenotazioni" THEN Esito(db, Solleva("OperationalError"))
    ELSE Esito(db, Successo({r \in JoinClienti(db) :
                               Like(Some(r.titolo), a.query) \/ Like(r.note, a.query)}, <<>>))

\* the resource appointment://{id_appuntamento}: the text of the row, or "non trovato"
get_appointment_resource(db, a) ==
    IF db.schema # "prenotazioni" THEN Esito(db, Solleva("OperationalError"))
    ELSE LET trovati == {r \in JoinClienti(db) : r.id_appuntamento = a.id_appuntamento}
         IN IF trovati = {} THEN Esito(db, Errore("Appuntamento non trovato"))
            ELSE Esito(db, Successo(trovati, <<>>))

get_daily_schedule(db, a) ==
    IF db.schema # "prenotazioni" THEN Esito(db, Solleva("OperationalError"))
    ELSE LET data == IF TruthyTesto(a.data) THEN Val(a.data) ELSE a.oggi
         IN Esito(db, Successo({r \in JoinClienti(db) :
                                  r.data_appuntamento = data /\ r.stato # "cancellato"}, <<>>))

list_appointments(db, a) ==
    IF db.schema # "prenotazioni" THEN Esito(db, Solleva("OperationalError"))
    ELSE LET data_da == IF TruthyTesto(a.data_da) THEN Val(a.data_da) ELSE a.oggi
         IN Esito(db, Successo({r \in JoinClienti(db) :
                                  /\ TextLeq(data_da, r.data_appuntamento)
                                  /\ TruthyStr(a.stato) => r.stato = Val(a.stato)}, <<>>))

(***************************************************************************)
(* main_oldd.py: the task tools, on the schema of                          *)
(* calendario_prenotazioni.py.                                             *)
(***************************************************************************)
PrioritaValide == {"bassa", "media", "alta", "critica"}
StatiTaskValidi == {"da_fare", "in_corso", "completato", "cancellato", "posticipato"}
DifficoltaMin == 1
DifficoltaMax == 10

\* a table without the CHECK on difficolta
CheckSenzaDifficolta(r) ==
    r.priorita \in PrioritaValide /\ r.stato \in StatiTaskValidi

\* the CHECK constraints of the table appuntamenti
CheckTask(r) ==
    /\ r.priorita \in PrioritaValide
    /\ r.stato \in StatiTaskValidi
    /\ r.difficolta >= DifficoltaMin /\ r.difficolta <= DifficoltaMax

\* a handler that refuses a date and ora_inizio already taken by a task
create_task_con_verifica(db, a) ==
    LET task == [id_appuntamento |-> NextId(db.appuntamenti),
                 titolo |-> a.titolo,
                 data_appuntamento |-> a.data_appuntamento,
                 ora_inizio |-> a.ora_inizio,
                 ora_fine |-> a.ora_fine,
                 priorita |-> a.priorita,
                 difficolta |-> a.difficolta,
                 stato |-> "da_fare",
                 note |-> None]
        occupato == \E r \in db.appuntamenti :
                       /\ r.data_appuntamento = a.data_appuntamento
                       /\ r.ora_inizio = a.ora_inizio
    IN IF db.schema # "task" THEN Esito(db, Solleva("OperationalError"))
       ELSE IF ~CheckTask(task) THEN Esito(db, Solleva("IntegrityError"))
       ELSE IF occupato THEN Esito(db, Errore("Conflitto"))
       ELSE Esito([db EXCEPT !.appuntamenti = @ \cup {task},
                              !.storico = Registra(@, task.id_appuntamento, "creazione")],
                  Successo({task}, <<>>))

create_task(db, a) ==
    IF db.schema # "task" THEN Esito(db, Solleva("OperationalError"))
    ELSE
      LET task == [id_appuntamento |-> NextId(db.appuntamenti),
                   titolo |-> a.titolo,
                   data_appuntamento |-> a.data_appuntamento,
                   ora_inizio |-> a.ora_inizio,
                   ora_fine |-> a.ora_fine,
                   priorita |-> a.priorita,
                   difficolta |-> a.difficolta,
                   stato |-> "da_fare",
                   note |-> None]
      IN IF ~CheckTask(task) THEN Esito(db, Solleva("IntegrityError"))
         ELSE Esito([db EXCEPT !.appuntamenti = @ \cup {task},
                                !.storico = Registra(@, task.id_appuntamento, "creazione")],
                    Successo({task}, <<>>))

update_task(db, a) ==
    IF db.schema # "task" THEN Esito(db, Solleva("OperationalError"))
    ELSE IF a.id_task \notin Ids(db.appuntamenti) THEN Esito(db, Errore("Task non trovato"))
    ELSE
      LET vecchio == Riga(db.appuntamenti, a.id_task)
          modifiche == Concat(<<IF a.titolo # None THEN <<"Titolo">> ELSE <<>>,
                                IF a.data_appuntamento # None THEN <<"Data">> ELSE <<>>,
                                IF a.ora_inizio # None THEN <<"Orario inizio">> ELSE <<>>,
                                IF a.ora_fine # None THEN <<"Orario fine">> ELSE <<>>,
                                IF a.priorita # None THEN <<"Priorita">> ELSE <<>>,
                                IF a.difficolta # None THEN <<"Difficolta">> ELSE <<>>,
                                IF a.stato # None THEN <<"Stato">> ELSE <<>> >>)
          task == [vecchio EXCEPT
                     !.titolo = IF a.titolo # None THEN Val(a.titolo) ELSE @,
                     !.data_appuntamento =
                         IF a.data_appuntamento # None THEN Val(a.data_appuntamento) ELSE @,
                     !.ora_inizio = IF a.ora_inizio # None THEN a.ora_inizio ELSE @,
                     !.ora_fine = IF a.ora_fine # None THEN a.ora_fine ELSE @,
                     !.priorita = IF a.priorita # None THEN Val(a.priorita) ELSE @,
                     !.difficolta = IF a.difficolta # None THEN Val(a.difficolta) ELSE @,
                     !.stato = IF a.stato # None THEN Val(a.stato) ELSE @,
                     !.note = IF a.note # None THEN a.note ELSE @]
      IN IF modifiche = <<>> /\ a.note = None
           THEN Esito(db, Errore("Nessuna modifica specificata"))
         ELSE IF ~CheckTask(task) THEN Esito(db, Solleva("IntegrityError"))
         ELSE Esito([db EXCEPT !.appuntamenti = (@ \ {vecchio}) \cup {task},
                                !.storico = Registra(@, a.id_task, "modifica")],
                    Successo({task}, modifiche))

\* an UPDATE with no WHERE clause
RigheQualsiasi(righe, id) == righe

\* the rows of ... WHERE id_appuntamento = ?
RigheConId(righe, id) == {r \in righe : r.id_appuntamento = id}

\* the UPDATE comes first; cursor.rowcount = 0 when no row has the id
complete_task(db, a) ==
    IF db.schema # "task" THEN Esito(db, Solleva("OperationalError"))
    ELSE LET trovate == RigheConId(db.appuntamenti, a.id_task)
             completate == {[r EXCEPT !.stato = "completato"] : r \in trovate}
             righe == (db.appuntamenti \ trovate) \cup completate
         IN IF Cardinality(trovate) = 0 THEN Esito(db, Errore("Task non trovato"))
            ELSE Esito([db EXCEPT !.appuntamenti = righe,
                                 !.storico = Registra(@, a.id_task, "completamento")],
                       Successo({r \in righe : r.id_appuntamento = a.id_task}, <<>>))

delete_task(db, a) ==
    IF db.schema # "task" THEN Esito(db, Solleva("OperationalError"))
    ELSE IF a.id_task \notin Ids(db.appuntamenti) THEN Esito(db, Errore("Task non trovato"))
    ELSE LET task == Riga(db.appuntamenti, a.id_task)
         IN Esito([db EXCEPT !.appuntamenti = SegnaCancellato(@, task),
                              !.storico = Registra(@, a.id_task, "cancellazione")],
                  Successo({task}, <<>>))

search_tasks(db, a) ==
    IF db.schema # "task" THEN Esito(db, Solleva("OperationalError"))
    ELSE Esito(db, Successo({r \in db.appuntamenti :
                               Like(Some(r.titolo), a.query) \/ Like(r.note, a.query)}, <<>>))

\* data_a, urgente and categoria are left at their default None
list_tasks(db, a) ==
    IF db.schema # "task" THEN Esito(db, Solleva("OperationalError"))
    ELSE LET data_da == IF TruthyTesto(a.data_da) THEN Val(a.data_da) ELSE a.oggi
         IN Esito(db, Successo({r \in db.appuntamenti :
                                  /\ TextLeq(data_da, r.data_appuntamento)
                                  /\ TruthyStr(a.stato) => r.stato = Val(a.stato)
                                  /\ TruthyStr(a.priorita) => r.priorita = Val(a.priorita)},
                                <<>>))

get_today_tasks(db, a) ==
    IF db.schema # "task" THEN Esito(db, Solleva("OperationalError"))
    ELSE Esito(db, Successo({r \in db.appuntamenti :
                               /\ r.data_appuntamento = a.oggi
                               /\ r.stato \notin {"completato", "cancellato"}}, <<>>))

\* the resource task://{id}: the text of the row, or "non trovato"
get_task_resource(db, a) ==
    IF db.schema # "task" THEN Esito(db, Solleva("OperationalError"))
    ELSE LET trovati == {r \in db.appuntamenti : r.id_appuntamento = a.id_task}
         IN IF trovati = {} THEN Esito(db, Errore("Task non trovato"))
            ELSE Esito(db, Successo(trovati, <<>>))

(***************************************************************************)
(* Inputs of the tools.                                                    *)
(***************************************************************************)
Giorno1 == <<1>>     \* two dates "YYYY-MM-DD" that differ in their last digit
Giorno2 == <<2>>
Date == {Giorno1, Giorno2}

Ore0900 == <<0, 9, 0, 0>>
Ore0930 == <<0, 9, 3, 0>>
Ore2330 == <<2, 3, 3, 0>>
Ore2500 == <<2, 5, 0, 0>>    \* "25:00": strptime raises ValueError

OreInput == {Ore0900, Ore0930, Ore2330}
DurateInput == {None, Some(0), Some(60)}

IdInput == 1 .. (MaxRighe + 1)

\* id_cliente 3 is no client; "25:00" is an ora_inizio that does not parse
CreateArgs ==
    [id_cliente : {1, 3}, data_appuntamento : Date, ora_inizio : OreInput,
     durata_minuti : DurateInput, titolo : {"T"}]
    \cup [id_cliente : {1, 3}, data_appuntamento : {Giorno1}, ora_inizio : {Ore2500},
          durata_minuti : {None}, titolo : {"T"}]

NessunCampo(id) ==
    [id_appuntamento |-> id, data_appuntamento |-> None, ora_inizio |-> None,
     durata_minuti |-> None, titolo |-> None, stato |-> None, note |-> None]

\* the calls of update_appointment: each field alone, and the pairs of fields
\* whose combination the handler treats specially
UpdateArgs ==
    UNION {
      {NessunCampo(id)}
      \cup {[NessunCampo(id) EXCEPT !.data_appuntamento = Some(d)] : d \in {<<>>, Giorno2}}
      \cup {[NessunCampo(id) EXCEPT !.ora_inizio = Some(o)] :
              o \in {<<>>, Ore0930, Ore2500}}
      \cup {[NessunCampo(id) EXCEPT !.durata_minuti = d] : d \in {Some(0), Some(60)}}
      \cup {[NessunCampo(id) EXCEPT !.ora_inizio = Some(Ore0930), !.durata_minuti = d] :
              d \in {Some(0), Some(60)}}
      \cup {[NessunCampo(id) EXCEPT !.titolo = Some("")]}
      \cup {[NessunCampo(id) EXCEPT !.durata_minuti = Some(60), !.note = Some("U")]}
      \cup {[NessunCampo(id) EXCEPT !.stato = Some(st)] :
              st \in {"", "confermato", "cancellato", "non_presentato"}}
      \cup {[NessunCampo(id) EXCEPT !.note = Some("U")]}
      : id \in IdInput}

\* priorita "altissima" and difficolta 11 break the CHECK constraints
TaskArgs ==
    [titolo : {"T"}, data_appuntamento : {Giorno1},
     ora_inizio : {None, Some(Ore0900)}, ora_fine : {None, Some(Ore0930)},
     priorita : {"media", "altissima"}, difficolta : {5, 11}]

NessunCampoTask(id) ==
    [id_task |-> id, titolo |-> None, data_appuntamento |-> None, ora_inizio |-> None,
     ora_fine |-> None, priorita |-> None, difficolta |-> None, stato |-> None,
     note |-> None]

UpdateTaskArgs ==
    UNION {
      {NessunCampoTask(id)}
      \cup {[NessunCampoTask(id) EXCEPT !.titolo = Some("")]}
      \cup {[NessunCampoTask(id) EXCEPT !.data_appuntamento = Some(Giorno2)]}
      \cup {[NessunCampoTask(id) EXCEPT !.ora_inizio = Some(Ore0900), !.ora_fine = Some(Ore0930)]}
      \cup {[NessunCampoTask(id) EXCEPT !.priorita = Some(p)] : p \in {"alta", "altissima"}}
      \cup {[NessunCampoTask(id) EXCEPT !.difficolta = Some(d)] : d \in {0, 7}}
      \cup {[NessunCampoTask(id) EXCEPT !.stato = Some(st)] :
              st \in {"in_corso", "da_fare", "sospeso"}}
      \cup {[NessunCampoTask(id) EXCEPT !.note = Some("U")]}
      : id \in IdInput}

(***************************************************************************)
(* The servers: every tool call is one step.                               *)
(***************************************************************************)
EntroLimiti(db) ==
    /\ Cardinality(db.appuntamenti) <= MaxRighe
    /\ Len(db.storico) <= MaxStorico

Chiama(op, a, e) ==
    /\ last.op = ""
    /\ EntroLimiti(e.db)
    /\ last' = [op |-> op, args |-> a, out |-> e.out]
    /\ prev' = DB
    /\ clienti' = e.db.clienti
    /\ appuntamenti' = e.db.appuntamenti
    /\ storico' = e.db.storico
    /\ UNCHANGED <<schema, conc>>

ServerPrenotazioni == schema \in {"prenotazioni", "vuoto"}

CreateClient ==
    /\ ServerPrenotazioni
    /\ conc.lock = 0
    /\ Cardinality(clienti) < MaxClienti
    /\ \E a \in [email : {None, Some("e")}] :
         Chiama("create_client", a, TryExcept(create_client(DB, a)))

CreateAppointment ==
    /\ ServerPrenotazioni
    /\ \E a \in CreateArgs :
         Chiama("create_appointment", a, TryExcept(create_appointment(DB, a)))

UpdateAppointment ==
    /\ ServerPrenotazioni
    /\ \E a \in UpdateArgs :
         Chiama("update_appointment", a, TryExcept(update_appointment(DB, a)))

DeleteAppointment ==
    /\ ServerPrenotazioni
    /\ \E a \in [id_appuntamento : IdInput] :
         Chiama("delete_appointment", a, TryExcept(delete_appointment(DB, a)))

SearchAppointments ==
    /\ ServerPrenotazioni
    /\ \E a \in [query : {"T", "Z"}] :
         Chiama("search_appointments", a, TryExcept(search_appointments(DB, a)))

GetAppointmentResource ==
    /\ ServerPrenotazioni
    /\ \E a \in [id_appuntamento : IdInput] :
         Chiama("get_appointment_resource", a, TryExcept(get_appointment_resource(DB, a)))

GetDailySchedule ==
    /\ ServerPrenotazioni
    /\ \E a \in [data : {None, Some(Giorno2)}, oggi : {Giorno1}] :
         Chiama("get_daily_schedule", a, TryExcept(get_daily_schedule(DB, a)))

ListAppointments ==
    /\ ServerPrenotazioni
    /\ \E a \in {[data_da |-> None, stato |-> None, oggi |-> Giorno1],
                 [data_da |-> Some(Giorno2), stato |-> Some("cancellato"), oggi |-> Giorno1]} :
         Chiama("list_appointments", a, TryExcept(list_appointments(DB, a)))

ServerTask == schema \in {"task", "vuoto"}

CreateTask ==
    /\ ServerTask
    /\ \E a \in TaskArgs : Chiama("create_task", a, TryExcept(create_task(DB, a)))

UpdateTask ==
    /\ ServerTask
    /\ \E a \in UpdateTaskArgs : Chiama("update_task", a, TryExcept(update_task(DB, a)))

CompleteTask ==
    /\ ServerTask
    /\ \E a \in [id_task : IdInput] :
         Chiama("complete_task", a, TryExcept(complete_task(DB, a)))

DeleteTask ==
    /\ ServerTask
    /\ \E a \in [id_task : IdInput] :
         Chiama("delete_task", a, TryExcept(delete_task(DB, a)))

SearchTasks ==
    /\ ServerTask
    /\ \E a \in [query : {"T", "Z"}] :
         Chiama("search_tasks", a, TryExcept(search_tasks(DB, a)))

GetTaskResource ==
    /\ ServerTask
    /\ \E a \in [id_task : IdInput] :
         Chiama("get_task_resource", a, TryExcept(get_task_resource(DB, a)))

ListTasks ==
    /\ ServerTask
    /\ \E a \in {[data_da |-> None, stato |-> None, priorita |-> None, oggi |-> Giorno1],
                 [data_da |-> Some(Giorno2), stato |-> Some("cancellato"),
                  priorita |-> Some("media"), oggi |-> Giorno1]} :
         Chiama("list_tasks", a, TryExcept(list_tasks(DB, a)))

GetTodayTasks ==
    /\ ServerTask
    /\ \E a \in [oggi : Date] :
         Chiama("get_today_tasks", a, TryExcept(get_today_tasks(DB, a)))

Chiamanti == {1, 2}

NessunaChiamata == [op |-> "", args |-> <<>>, out |-> Successo({}, <<>>)]

\* the returned dict goes back to the caller; the server takes the next request
Risposta ==
    /\ last.op # ""
    /\ last' = NessunaChiamata
    /\ prev' = DB
    /\ UNCHANGED <<schema, clienti, appuntamenti, storico, conc>>

\* no caller is inside create_appointment
ConcFermo ==
    [pc |-> [p \in Chiamanti |-> "attesa"],
     args |-> [p \in Chiamanti |-> <<>>],
     riga |-> [p \in Chiamanti |-> {}],
     out |-> [p \in Chiamanti |-> Successo({}, <<>>)],
     controllo |-> [p \in Chiamanti |-> "no"],
     lock |-> 0,
     commit |-> 0]

\* the tables are there and empty; the calendar has its first client
TabelleVuote ==
    /\ appuntamenti = {}
    /\ storico = <<>>
    /\ last = NessunaChiamata
    /\ prev = DB
    /\ conc = ConcFermo

InitPrenotazioni ==
    /\ schema = "prenotazioni"
    /\ clienti = {[id_cliente |-> 1, email |-> Some("e")]}
    /\ TabelleVuote

InitTask ==
    /\ schema = "task"
    /\ clienti = {}
    /\ TabelleVuote

\* sqlite3.connect on a path with no database creates an empty file
InitVuoto ==
    /\ schema = "vuoto"
    /\ clienti = {}
    /\ TabelleVuote

Init == InitPrenotazioni \/ InitTask \/ InitVuoto

Next ==
    \/ CreateAppointment
    \/ UpdateAppointment
    \/ DeleteAppointment
    \/ SearchAppointments
    \/ GetAppointmentResource
    \/ GetDailySchedule
    \/ ListAppointments
    \/ CreateTask
    \/ UpdateTask
    \/ CompleteTask
    \/ DeleteTask
    \/ SearchTasks
    \/ GetTaskResource
    \/ ListTasks
    \/ GetTodayTasks
    \/ Risposta

Spec == Init /\ [][Next]_vars

(***************************************************************************)
(* Two callers inside create_appointment at once, each on the connection   *)
(* it opened, e.g. two server processes on the same database file.  One    *)
(* step per statement.  Between its INSERT and its commit a connection     *)
(* holds the write lock of the file; another writer waits for it (the      *)
(* busy timeout of sqlite3.connect, 5 seconds, is taken not to run out).   *)
(***************************************************************************)
ConcArgs ==
    [id_cliente : {1, 2}, data_appuntamento : Date, ora_inizio : {Ore0900, Ore0930, Ore2500},
     durata_minuti : {None, Some(60)}, titolo : {"T"}]

\* a connection that reads the uncommitted rows of the others
RigheNonConfermate(confermate, pendenti) == confermate \cup pendenti

\* a SELECT sees the committed rows, not the uncommitted rows of another connection
RigheVisibili(confermate, pendenti) == confermate

Pendenti(p) == UNION {conc.riga[q] : q \in Chiamanti \ {p}}

Finisce(p, out) ==
    conc' = [conc EXCEPT !.pc[p] = "fine", !.out[p] = out]

\* the tool is called: conn = get_db_connection()
Chiamata(p) ==
    /\ conc.pc[p] = "attesa"
    /\ \E a \in ConcArgs : conc' = [conc EXCEPT !.pc[p] = "cliente", !.args[p] = a]
    /\ UNCHANGED <<schema, clienti, appuntamenti, storico, last, prev>>

\* SELECT id_cliente FROM clienti WHERE id_cliente = ?
VerificaCliente(p) ==
    /\ conc.pc[p] = "cliente"
    /\ IF conc.args[p].id_cliente \notin IdClienti(clienti)
         THEN Finisce(p, Errore("Cliente non trovato"))
         ELSE conc' = [conc EXCEPT !.pc[p] = "query"]
    /\ UNCHANGED <<schema, clienti, appuntamenti, storico, last, prev>>

\* ora_fine, then the conflict SELECT
VerificaSovrapposizioni(p) ==
    /\ conc.pc[p] = "query"
    /\ LET a == conc.args[p]
           durata == IF a.durata_minuti = None THEN DurataDefault ELSE Val(a.durata_minuti)
           ora_fine == CalcolaOraFine(a.ora_inizio, durata)
           conflitti == QueryConflitti(RigheVisibili(appuntamenti, Pendenti(p)),
                                       a.data_appuntamento, a.ora_inizio, ora_fine)
           quando == IF conc.commit = 0 THEN "prima" ELSE "dopo"
       IN IF ~OraValida(a.ora_inizio)
            THEN Finisce(p, TryExcept(Esito(DB, Solleva("ValueError"))).out)
          ELSE IF conflitti # {}
            THEN conc' = [conc EXCEPT !.pc[p] = "fine", !.out[p] = Errore("Conflitto"),
                                      !.controllo[p] = quando]
          ELSE conc' = [conc EXCEPT !.pc[p] = "insert", !.controllo[p] = quando]
    /\ UNCHANGED <<schema, clienti, appuntamenti, storico, last, prev>>

\* INSERT INTO appuntamenti: opens the transaction and takes the write lock
InserisciAppuntamento(p) ==
    /\ conc.pc[p] = "insert"
    /\ conc.lock = 0
    /\ LET a == conc.args[p]
           durata == IF a.durata_minuti = None THEN DurataDefault ELSE Val(a.durata_minuti)
           riga == [id_appuntamento |-> NextId(appuntamenti),
                    id_cliente |-> a.id_cliente,
                    data_appuntamento |-> a.data_appuntamento,
                    ora_inizio |-> a.ora_inizio,
                    ora_fine |-> CalcolaOraFine(a.ora_inizio, durata),
                    titolo |-> a.titolo,
                    stato |-> "confermato",
                    note |-> None]
       IN conc' = [conc EXCEPT !.pc[p] = "storico", !.riga[p] = {riga}, !.lock = p]
    /\ UNCHANGED <<schema, clienti, appuntamenti, storico, last, prev>>

\* INSERT INTO storico_modifiche, in the same transaction
RegistraStorico(p) ==
    /\ conc.pc[p] = "storico"
    /\ conc' = [conc EXCEPT !.pc[p] = "commit"]
    /\ UNCHANGED <<schema, clienti, appuntamenti, storico, last, prev>>

\* conn.commit()
Commit(p) ==
    /\ conc.pc[p] = "commit"
    /\ appuntamenti' = appuntamenti \cup conc.riga[p]
    /\ storico' = Registra(storico, Val(conc.riga[p]).id_appuntamento, "creazione")
    /\ conc' = [conc EXCEPT !.pc[p] = "ritorno", !.lock = 0, !.commit = @ + 1]
    /\ UNCHANGED <<schema, clienti, last, prev>>

\* the SELECT of the new row and the return
Ritorno(p) ==
    /\ conc.pc[p] = "ritorno"
    /\ conc' = [conc EXCEPT !.pc[p] = "fine", !.out[p] = Successo(conc.riga[p], <<>>),
                            !.riga[p] = {}]
    /\ UNCHANGED <<schema, clienti, appuntamenti, storico, last, prev>>

InitConc == InitPrenotazioni

NextConc ==
    \/ \E p \in Chiamanti :
         \/ Chiamata(p)
         \/ VerificaCliente(p)
         \/ VerificaSovrapposizioni(p)
         \/ InserisciAppuntamento(p)
         \/ RegistraStorico(p)
         \/ Commit(p)
         \/ Ritorno(p)
    \/ CreateClient
    \/ Risposta

SpecConc == InitConc /\ [][NextConc]_vars

(***************************************************************************)
(* The claims.  last is the call just made, prev the database before it.   *)
(***************************************************************************)
CreateFatta == last.op = "create_appointment"

NuovoInizio == last.args.ora_inizio
NuovaDurata ==
    IF last.args.durata_minuti = None THEN 30 ELSE Val(last.args.durata_minuti)
\* ns + d minutes as the time of day "HH:MM"
NuovaFine ==
    LET m == (strptime(NuovoInizio) + NuovaDurata) % 1440
    IN <<(m \div 60) \div 10, (m \div 60) % 10, (m % 60) \div 10, (m % 60) % 10>>

ClienteEsiste == last.args.id_cliente \in IdClienti(prev.clienti)

\* the stored appointments the conflict test is about
AttiviDelGiorno ==
    {r \in prev.appuntamenti :
        /\ r.data_appuntamento = last.args.data_appuntamento
        /\ r.stato # "cancellato" /\ r.stato # "non_presentato"}

\* s < ne and e > ns
Sovrapposto(r) == TextLess(r.ora_inizio, NuovaFine) /\ TextLess(NuovoInizio, r.ora_fine)
\* ns <= s and e <= ne
DentroIlNuovo(r) == TextLeq(NuovoInizio, r.ora_inizio) /\ TextLeq(r.ora_fine, NuovaFine)
\* s <= ns and ne <= e
ContieneIlNuovo(r) == TextLeq(r.ora_inizio, NuovoInizio) /\ TextLeq(NuovaFine, r.ora_fine)
\* ns = e or ne = s
Tocca(r) == NuovoInizio = r.ora_fine \/ NuovaFine = r.ora_inizio
Positivo(r) == TextLess(r.ora_inizio, r.ora_fine)

Respinta == ~last.out.success /\ appuntamenti = prev.appuntamenti /\ storico = prev.storico
Conflitto == Respinta /\ last.out.error = "Conflitto"
Creata == last.out.success

\* C1 as written: whenever an active appointment of the date has
\* ora_inizio < ne and ora_fine > ns, create_appointment fails with 'Conflitto'
\* and inserts nothing.
C1_Originale ==
    (CreateFatta /\ \E r \in AttiviDelGiorno : Sovrapposto(r)) => Conflitto

\* C1: for an id_cliente that exists and an ora_inizio that parses, whenever
\* an active appointment of the requested date has ora_inizio < ne and
\* ora_fine > ns (ne the computed ora_fine), create_appointment fails with
\* 'Conflitto' and inserts nothing.
C1_Conflitto ==
    (/\ CreateFatta /\ ClienteEsiste /\ OraValida(NuovoInizio)
     /\ \E r \in AttiviDelGiorno : Sovrapposto(r))
    => Conflitto

C1_Witness ==
    /\ CreateFatta /\ ClienteEsiste /\ OraValida(NuovoInizio)
    /\ \E r \in AttiviDelGiorno : Sovrapposto(r) /\ ~DentroIlNuovo(r)
    /\ Conflitto

\* C2 as written: if the client exists and no active appointment of the
\* requested date overlaps the requested interval, the creation succeeds.
C2_Originale ==
    (/\ CreateFatta /\ ClienteEsiste /\ OraValida(NuovoInizio)
     /\ \A r \in AttiviDelGiorno : ~Sovrapposto(r))
    => Creata

\* C2: cancelled and non_presentato appointments and appointments of another
\* date never block a creation: if the client exists, ora_inizio parses and no
\* active appointment of the requested date overlaps the requested interval
\* or lies within [ns, ne], the creation succeeds.
C2_SoloAttiviDelGiorno ==
    (/\ CreateFatta /\ ClienteEsiste /\ OraValida(NuovoInizio)
     /\ \A r \in AttiviDelGiorno : ~Sovrapposto(r) /\ ~DentroIlNuovo(r))
    => Creata

C2_Witness ==
    /\ CreateFatta /\ Creata
    /\ \E r \in prev.appuntamenti :
         /\ r.stato = "non_presentato"
         /\ r.data_appuntamento = last.args.data_appuntamento
         /\ Sovrapposto(r)

C5_Originale ==
    (CreateFatta /\ ClienteEsiste /\ OraValida(NuovoInizio))
    => (Conflitto <=> \E r \in AttiviDelGiorno : Sovrapposto(r))

\* C5: when the stored active intervals of the date have s < e, the conflict
\* query decides the classic overlap predicate: the creation is refused with
\* 'Conflitto' exactly when one of them has s < new_end and e > new_start,
\* for every new interval (zero-length and end-before-start included).
C5_Classico ==
    (/\ CreateFatta /\ ClienteEsiste /\ OraValida(NuovoInizio)
     /\ \A r \in AttiviDelGiorno : Positivo(r))
    => /\ Conflitto <=> \E r \in AttiviDelGiorno : Sovrapposto(r)
       /\ ~Conflitto => Creata

C5_Witness ==
    /\ CreateFatta /\ Creata
    /\ ~TextLess(NuovoInizio, NuovaFine)
    /\ \E r \in AttiviDelGiorno : Positivo(r) /\ ContieneIlNuovo(r)

\* C9: a successful create_appointment stores exactly one new appointment,
\* 'confermato', with the given date and ora_inizio and with ora_fine the time
\* of day ora_inizio + durata_minuti (30 when omitted), and returns that row.
C9_Creazione ==
    (CreateFatta /\ Creata)
    => \E r \in appuntamenti :
         /\ r \notin prev.appuntamenti
         /\ appuntamenti = prev.appuntamenti \cup {r}
         /\ Cardinality(appuntamenti) = Cardinality(prev.appuntamenti) + 1
         /\ r.id_appuntamento \notin Ids(prev.appuntamenti)
         /\ r.stato = "confermato"
         /\ r.data_appuntamento = last.args.data_appuntamento
         /\ r.ora_inizio = NuovoInizio
         /\ r.ora_fine = NuovaFine
         /\ last.out.righe = {r}

C9_Witness ==
    /\ CreateFatta /\ Creata
    /\ last.args.durata_minuti = None
    /\ prev.appuntamenti # {}

UpdateFatta == last.op = "update_appointment"
Aggiornata == Riga(appuntamenti, last.args.id_appuntamento)

\* C10: after a successful update_appointment that carries durata_minuti the
\* stored ora_fine is the stored ora_inizio plus durata_minuti, and a call with
\* durata_minuti as its only field is such a successful call.
C10_Durata ==
    (UpdateFatta /\ last.args.durata_minuti # None
     /\ last.args.id_appuntamento \in Ids(prev.appuntamenti))
    => /\ last.args = [NessunCampo(last.args.id_appuntamento)
                         EXCEPT !.durata_minuti = last.args.durata_minuti]
           => last.out.success
       /\ last.out.success =>
            strptime(Aggiornata.ora_fine) =
              (strptime(Aggiornata.ora_inizio) + Val(last.args.durata_minuti)) % 1440

StessoDatabase ==
    /\ appuntamenti = prev.appuntamenti
    /\ storico = prev.storico
    /\ clienti = prev.clienti

\* C7: every tool call ends by returning a result: an exception raised while
\* the tool runs (an ora_inizio that does not parse, a violated constraint, a
\* missing table) comes back as success = False with the text of the
\* exception as error, and is never propagated.
C7_SempreUnRisultato ==
    /\ last.out.exc = ""
    /\ (last.op # "" /\ ~last.out.success) => last.out.error # ""
    /\ (last.op # "" /\ prev.schema = "vuoto")
         => ~last.out.success /\ last.out.error = "OperationalError" /\ StessoDatabase
    /\ (CreateFatta /\ ClienteEsiste /\ ~OraValida(NuovoInizio))
         => ~last.out.success /\ last.out.error = "ValueError" /\ StessoDatabase
    /\ (UpdateFatta /\ last.args.ora_inizio = Some(Ore2500)
        /\ last.args.id_appuntamento \in Ids(prev.appuntamenti))
         => ~last.out.success /\ last.out.error = "ValueError" /\ StessoDatabase
    /\ (last.op = "create_task" /\ prev.schema = "task"
        /\ (last.args.priorita = "altissima" \/ last.args.difficolta = 11))
         => ~last.out.success /\ last.out.error = "IntegrityError" /\ StessoDatabase

C7_Witness ==
    /\ UpdateFatta
    /\ last.args.ora_inizio = Some(Ore2500)
    /\ last.out.exc = "" /\ ~last.out.success /\ last.out.error = "ValueError"

DeleteFatta == last.op \in {"delete_appointment", "delete_task"}
IdDelete ==
    IF last.op = "delete_task" THEN last.args.id_task ELSE last.args.id_appuntamento
RicercaFatta == last.op \in {"search_appointments", "search_tasks"}
LetturaFatta == last.op \in {"get_appointment_resource", "get_task_resource"}
IdLettura ==
    IF last.op = "get_task_resource" THEN last.args.id_task ELSE last.args.id_appuntamento

C8_Stato ==
    /\ (DeleteFatta /\ last.out.success) =>
         /\ IdDelete \in Ids(prev.appuntamenti)
         /\ LET prima == Riga(prev.appuntamenti, IdDelete)
            IN appuntamenti =
                 (prev.appuntamenti \ {prima}) \cup {[prima EXCEPT !.stato = "cancellato"]}
    /\ (DeleteFatta /\ prev.schema # "vuoto" /\ IdDelete \in Ids(prev.appuntamenti))
         => last.out.success
    /\ RicercaFatta =>
         \A r \in appuntamenti :
            (r.stato = "cancellato" /\ r.titolo = last.args.query) => r \in last.out.righe
    /\ (LetturaFatta /\ IdLettura \in Ids(appuntamenti)) =>
         last.out.righe = {Riga(appuntamenti, IdLettura)}

\* C8: deletion is soft: delete_appointment and delete_task on an existing id
\* set the stato of the row to 'cancellato' and change nothing else, no tool
\* call ever removes an id from appuntamenti, and a cancelled row is still
\* returned by the search tools and by the lookup by id.
C8_SoftDelete ==
    /\ []C8_Stato
    /\ [][Ids(appuntamenti) \subseteq Ids(appuntamenti')
          /\ Cardinality(appuntamenti') >= Cardinality(appuntamenti)]_vars

C8_Witness ==
    /\ RicercaFatta
    /\ \E r \in last.out.righe :
         /\ r.stato = "cancellato"
         /\ \E i \in 1 .. Len(storico) : storico[i] = <<r.id_appuntamento, "cancellazione">>

ConcFinito == \A p \in Chiamanti : conc.pc[p] = "fine"
FineDi(p) ==
    LET a == conc.args[p]
    IN strftime(strptime(a.ora_inizio)
                + (IF a.durata_minuti = None THEN 30 ELSE Val(a.durata_minuti)))
\* the two requested intervals are of the same date and overlap
RichiesteSovrapposte ==
    /\ conc.args[1].data_appuntamento = conc.args[2].data_appuntamento
    /\ TextLess(conc.args[1].ora_inizio, FineDi(2))
    /\ TextLess(conc.args[2].ora_inizio, FineDi(1))
RigheSovrapposte(r, q) ==
    /\ r.data_appuntamento = q.data_appuntamento
    /\ TextLess(r.ora_inizio, q.ora_fine)
    /\ TextLess(q.ora_inizio, r.ora_fine)

\* C6: there is no concurrency control: when two create_appointment calls for
\* overlapping intervals of one date both run their conflict SELECT before
\* either INSERT is committed, both return success = True and two overlapping
\* 'confermato' appointments are stored.
C6_DoppiaPrenotazione ==
    (/\ ConcFinito
     /\ \A p \in Chiamanti : conc.controllo[p] = "prima"
     /\ RichiesteSovrapposte)
    => /\ \A p \in Chiamanti : conc.out[p].success /\ conc.out[p].righe \subseteq appuntamenti
       /\ \E r, q \in appuntamenti :
            /\ r.id_appuntamento # q.id_appuntamento
            /\ r.stato = "confermato" /\ q.stato = "confermato"
            /\ RigheSovrapposte(r, q)

C6_Witness ==
    /\ ConcFinito
    /\ \A p \in Chiamanti : conc.controllo[p] = "prima" /\ conc.out[p].success
    /\ RichiesteSovrapposte
    /\ Cardinality(appuntamenti) = 2
    /\ \A r, q \in appuntamenti :
         r.stato = "confermato" /\ (r.id_appuntamento # q.id_appuntamento => RigheSovrapposte(r, q))

FuoriDaiVincoli(priorita, difficolta, stato) ==
    \/ \E p \in priorita : p \notin {"bassa", "media", "alta", "critica"}
    \/ \E d \in difficolta : d < 1 \/ d > 10
    \/ \E st \in stato :
         st \notin {"da_fare", "in_corso", "completato", "cancellato", "posticipato"}

\* C11: in the task variant every stored task has difficolta between 1 and
\* 10, priorita in {bassa, media, alta, critica} and stato in {da_fare,
\* in_corso, completato, cancellato, posticipato}; a create_task or update_task
\* that carries a value outside these sets returns success = False and
\* changes no row.
C11_VincoliTask ==
    /\ schema = "task" =>
         \A r \in appuntamenti :
            ~FuoriDaiVincoli({r.priorita}, {r.difficolta}, {r.stato})
    /\ (last.op = "create_task"
        /\ FuoriDaiVincoli({last.args.priorita}, {last.args.difficolta}, {}))
         => ~last.out.success /\ StessoDatabase
    /\ (last.op = "update_task"
        /\ FuoriDaiVincoli(last.args.priorita, last.args.difficolta, last.args.stato))
         => ~last.out.success /\ StessoDatabase

C11_Witness ==
    /\ last.op = "update_task"
    /\ last.args.difficolta = Some(0)
    /\ last.args.id_task \in Ids(prev.appuntamenti)
    /\ ~last.out.success /\ last.out.error = "IntegrityError"
    /\ \E r \in appuntamenti : r.stato = "completato"

\* C12: create_appointment with an id_cliente that matches no row of clienti
\* returns success = False with 'Cliente non trovato' and adds no appointment
\* and no history row, whatever the other arguments are: the client check comes
\* before the parsing of ora_inizio and before the conflict check.
C12_ClienteNonTrovato ==
    (/\ CreateFatta /\ prev.schema = "prenotazioni"
     /\ \A c \in prev.clienti : c.id_cliente # last.args.id_cliente)
    => /\ ~last.out.success /\ last.out.error = "Cliente non trovato"
       /\ StessoDatabase

C12_Witness ==
    /\ CreateFatta /\ prev.schema = "prenotazioni"
    /\ last.args.id_cliente = 3 /\ last.args.ora_inizio = Ore2500
    /\ last.out.error = "Cliente non trovato"
    /\ prev.appuntamenti # {}

\* an appointment as an interval of minutes of its day: it starts at ora_inizio
\* and lasts the minutes from ora_inizio on to ora_fine
InizioMinuti(r) == strptime(r.ora_inizio)
FineMinuti(r) == strptime(r.ora_inizio) + ((strptime(r.ora_fine) - strptime(r.ora_inizio)) % 1440)
Attivo(r) == r.stato # "cancellato" /\ r.stato # "non_presentato"
NessunaSovrapposizione(righe) ==
    \A r, q \in righe :
       (/\ r.id_appuntamento # q.id_appuntamento
        /\ r.data_appuntamento = q.data_appuntamento
        /\ Attivo(r) /\ Attivo(q))
       => ~(InizioMinuti(r) < FineMinuti(q) /\ InizioMinuti(q) < FineMinuti(r))

SoloCreateEDelete ==
    \A i \in 1 .. Len(storico) : storico[i][2] \in {"creazione", "cancellazione"}

\* C13: starting from no appointments, after any sequence of sequential
\* create_appointment and delete_appointment calls no two stored appointments
\* of the same date with stato not in {cancellato, non_presentato} have
\* overlapping time intervals.
C13_NessunaSovrapposizione ==
    (schema = "prenotazioni" /\ SoloCreateEDelete) => NessunaSovrapposizione(appuntamenti)

\* C14: the invariant survives update_appointment: when no two active
\* appointments of a date overlap before an update_appointment call, none
\* overlap after it.
C14_DopoUpdate ==
    (UpdateFatta /\ NessunaSovrapposizione(prev.appuntamenti))
    => NessunaSovrapposizione(appuntamenti)

\* C15: every appointment stored by create_appointment, or rewritten by
\* update_appointment with a new ora_inizio, with a positive duration has
\* ora_inizio strictly earlier than ora_fine.
C15_InizioPrimaDellaFine ==
    /\ (CreateFatta /\ Creata /\ NuovaDurata > 0)
         => \A r \in last.out.righe : TextLess(r.ora_inizio, r.ora_fine)
    /\ (/\ UpdateFatta /\ last.out.success
        /\ TruthyTesto(last.args.ora_inizio)
        /\ TruthyInt(last.args.durata_minuti) /\ Val(last.args.durata_minuti) > 0)
         => TextLess(Aggiornata.ora_inizio, Aggiornata.ora_fine)

Precedente == Riga(prev.appuntamenti, last.args.id_appuntamento)
SoloNuovoInizio ==
    /\ UpdateFatta /\ last.out.success
    /\ TruthyTesto(last.args.ora_inizio)
    /\ ~TruthyInt(last.args.durata_minuti)

TipoModifica ==
    [create_appointment |-> "creazione", create_task |-> "creazione",
     update_appointment |-> "modifica", update_task |-> "modifica",
     delete_appointment |-> "cancellazione", delete_task |-> "cancellazione",
     complete_task |-> "completamento"]
Mutazione == last.op \in DOMAIN TipoModifica
IdToccato ==
    IF last.op \in {"create_appointment", "create_task"}
      THEN (CHOOSE r \in last.out.righe : TRUE).id_appuntamento
    ELSE IF last.op \in {"update_task", "complete_task", "delete_task"} THEN last.args.id_task
    ELSE last.args.id_appuntamento

C17_Stato ==
    /\ (Mutazione /\ last.out.success)
         => storico = Append(prev.storico, <<IdToccato, TipoModifica[last.op]>>)
    /\ (~Mutazione \/ ~last.out.success) => storico = prev.storico

SenzaTesto(o) == o = None \/ o = Some(<<>>)
SenzaStringa(o) == o = None \/ o = Some("")
NessunCampoDato ==
    /\ SenzaTesto(last.args.data_appuntamento) /\ SenzaTesto(last.args.ora_inizio)
    /\ SenzaStringa(last.args.titolo) /\ SenzaStringa(last.args.stato)

\* C19: update_appointment and update_task on an existing id with no field to
\* change return success = False with 'Nessuna modifica specificata' and write
\* nothing; in update_appointment an empty string for data_appuntamento,
\* ora_inizio, titolo or stato counts as not given, and a call that changes
\* only note succeeds with an empty list of modifiche.
C19_NessunaModifica ==
    /\ (/\ UpdateFatta /\ last.args.id_appuntamento \in Ids(prev.appuntamenti)
        /\ NessunCampoDato /\ last.args.note = None)
         => /\ ~last.out.success /\ last.out.error = "Nessuna modifica specificata"
            /\ StessoDatabase
    /\ (/\ UpdateFatta /\ last.args.id_appuntamento \in Ids(prev.appuntamenti)
        /\ NessunCampoDato /\ last.args.note # None)
         => /\ last.out.success /\ last.out.modifiche = <<>>
            /\ Aggiornata = [Precedente EXCEPT !.note = last.args.note]
    /\ (/\ last.op = "update_task" /\ last.args.id_task \in Ids(prev.appuntamenti)
        /\ last.args = NessunCampoTask(last.args.id_task))
         => /\ ~last.out.success /\ last.out.error = "Nessuna modifica specificata"
            /\ StessoDatabase

C19_Witness ==
    /\ UpdateFatta /\ last.args.id_appuntamento \in Ids(prev.appuntamenti)
    /\ last.args.stato = Some("")
    /\ last.out.error = "Nessuna modifica specificata"

IdChiamato ==
    IF last.op \in {"update_task", "complete_task", "delete_task"}
      THEN last.args.id_task ELSE last.args.id_appuntamento

\* C20: update_appointment, delete_appointment, update_task, complete_task and
\* delete_task called with an id that matches no row return success = False
\* with a 'non trovato' error and leave the appointments and the history
\* unchanged.
C20_NonTrovato ==
    (/\ \/ last.op \in {"update_appointment", "delete_appointment"}
           /\ prev.schema = "prenotazioni"
        \/ last.op \in {"update_task", "complete_task", "delete_task"}
           /\ prev.schema = "task"
     /\ \A r \in prev.appuntamenti : r.id_appuntamento # IdChiamato)
    => /\ ~last.out.success
       /\ last.out.error \in {"Appuntamento non trovato", "Task non trovato"}
       /\ appuntamenti = prev.appuntamenti /\ storico = prev.storico

C20_Witness ==
    /\ last.op = "complete_task" /\ prev.schema = "task"
    /\ prev.appuntamenti # {}
    /\ last.args.id_task \notin Ids(prev.appuntamenti)
    /\ last.out.error = "Task non trovato"

\* C21: the task variant has no conflict detection: create_task with a valid
\* priorita and difficolta succeeds whatever the ora_inizio and ora_fine of
\* the tasks already stored on that date, and stores one new task 'da_fare'
\* with the given date and times.
C21_NessunaVerifica ==
    (/\ last.op = "create_task" /\ prev.schema = "task"
     /\ last.args.priorita \in {"bassa", "media", "alta", "critica"}
     /\ last.args.difficolta >= 1 /\ last.args.difficolta <= 10)
    => /\ last.out.success
       /\ \E t \in appuntamenti :
            /\ t.id_appuntamento \notin Ids(prev.appuntamenti)
            /\ appuntamenti = prev.appuntamenti \cup {t}
            /\ Cardinality(appuntamenti) = Cardinality(prev.appuntamenti) + 1
            /\ t.stato = "da_fare"
            /\ t.data_appuntamento = last.args.data_appuntamento
            /\ t.ora_inizio = last.args.ora_inizio
            /\ t.ora_fine = last.args.ora_fine

C21_Witness ==
    /\ last.op = "create_task" /\ last.out.success
    /\ \E t, u \in appuntamenti :
         /\ t.id_appuntamento # u.id_appuntamento
         /\ t.stato = "da_fare" /\ u.stato = "da_fare"
         /\ t.data_appuntamento = u.data_appuntamento
         /\ t.ora_inizio = Some(Ore0900) /\ u.ora_inizio = Some(Ore0900)
         /\ t.ora_fine = Some(Ore0930) /\ u.ora_fine = Some(Ore0930)

\* the first and the third clause of the conflict query
PrimaClausola(r, ns, ne) == TextLess(r.ora_inizio, ne) /\ TextLess(ns, r.ora_fine)
TerzaClausola(r, ns, ne) == TextLeq(ns, r.ora_inizio) /\ TextLeq(r.ora_fine, ne)
FineRichiesta(ns, d) == strftime(strptime(ns) + d)

\* C22: the second clause of the conflict query is redundant with the first:
\* for every stored row and every new interval the query matches exactly the
\* rows that the query without its second clause matches.
C22_SecondaRidondante ==
    schema = "prenotazioni" =>
      \A data \in Date, ns \in OreInput, d \in {0, 30, 60} :
         QueryConflitti(appuntamenti, data, ns, FineRichiesta(ns, d))
           = {r \in appuntamenti :
                /\ r.data_appuntamento = data
                /\ r.stato # "cancellato" /\ r.stato # "non_presentato"
                /\ \/ PrimaClausola(r, ns, FineRichiesta(ns, d))
                   \/ TerzaClausola(r, ns, FineRichiesta(ns, d))}

C22_Witness ==
    /\ schema = "prenotazioni"
    /\ \E r, q \in appuntamenti :
         /\ r.data_appuntamento = q.data_appuntamento
         /\ r.stato = "confermato" /\ q.stato = "confermato"
         /\ QueryConflitti(appuntamenti, r.data_appuntamento, Ore0900, Ore0930) = {r, q}
         /\ PrimaClausola(r, Ore0900, Ore0930) /\ ~TerzaClausola(r, Ore0900, Ore0930)
         /\ TerzaClausola(q, Ore0900, Ore0930) /\ ~PrimaClausola(q, Ore0900, Ore0930)

====
